---- MODULE Spec2Model ----
(***************************************************************************)
(* Model of gcbmwalltowall:                                                *)
(*   application/walltowall.py     the merge command (cli + merge)         *)
(*   component/rollback.py         _ClassifierSet, _AgeDistribution and    *)
(*                                 Rollback._convert_age_distribution      *)
(*   converter/projectconverter.py _flatten_pivot_columns, _convert_yields *)
(*                                 and _convert_transitions                *)
(* Each part has its own specification over its own group of variables;    *)
(* the other groups stay at their idle values.                             *)
(***************************************************************************)
EXTENDS Integers, Sequences, FiniteSets, TLC

VARIABLES
    \* ---- walltowall.py: merge command
    pc,             \* position in cli()/merge()
    args,           \* parsed command line: project_paths, config, include_index_layer
    fs,             \* filesystem artifacts written so far
    projects,       \* merge(): the PreparedProject list
    inventories,    \* merge(): number of inventories returned by prepare_merge
    start_year,     \* merge(): reconciled start year (0 = not yet computed)
    end_year,       \* merge(): reconciled end year (0 = not yet computed)
    stage_calls,    \* the external stages invoked, in order, with arguments and outcome
    exit,           \* how the command ended
    \* ---- rollback.py: _AgeDistribution
    dist_pc,            \* "idle" | "adding" | "emitted"
    disturbance_types,  \* _AgeDistribution.disturbance_types
    distributions,      \* _AgeDistribution.distributions: insertion-ordered dict of dicts
    add_calls,          \* the add(age, proportion, classifier_set) calls made so far
    dist_json,          \* what to_json() returned
    \* ---- rollback.py: Rollback._convert_age_distribution
    conv_pc,            \* "idle" | "read_root" | "sheet" | "rows" | "done"
    classifiers,        \* the caller's classifier names, in order
    sheets_read,        \* the distribution sheets read so far: columns and row count
    sheets_left,        \* distribution sheets of the root sheet not yet read
    columns,            \* distribution_sheet.columns of the sheet being read
    rows_left,          \* rows of that sheet not yet iterated
    row_data,           \* row_data of the last row iterated
    classifier_set,     \* classifier_set built for that row
    age_distributions,  \* the records collected so far
    out_file,           \* the file at output_path
    conv_error,         \* the exception that left the call, "none" if none
    \* ---- projectconverter.py: _flatten_pivot_columns
    pivot_pc,           \* "idle" | "pivoted" | "flattened"
    pivot_levels,       \* the (outer label, inner label) pairs the table was pivoted with
    pivot_columns,      \* pivot_data.columns
    \* ---- projectconverter.py: ProjectConverter.convert
    ext_pc,             \* "idle" | "begin" | "yields" | "yields_body" | "transitions" |
                        \* "transitions_body" | "rest" | "done"
    connections,        \* every connection engine.connect() returned so far, and whether it is open
    db,                 \* the input database: growth curve components and transitions
    sit_yields,         \* output_path/sit_yields.csv
    sit_transitions,    \* output_path/sit_transitions.csv
    ext_error           \* the exception that left convert, "none" if none

mergeVars == <<pc, args, fs, projects, inventories, start_year, end_year, stage_calls, exit>>

distVars == <<dist_pc, disturbance_types, distributions, add_calls, dist_json>>

convVars == <<conv_pc, classifiers, sheets_read, sheets_left, columns, rows_left, row_data,
              classifier_set, age_distributions, out_file, conv_error>>

pivotVars == <<pivot_pc, pivot_levels, pivot_columns>>

extVars == <<ext_pc, connections, db, sit_yields, sit_transitions, ext_error>>

notMergeVars == <<distVars, convVars, pivotVars, extVars>>
notDistVars == <<mergeVars, convVars, pivotVars, extVars>>
notConvVars == <<mergeVars, pivotVars, extVars>>
notPivotVars == <<mergeVars, distVars, convVars, extVars>>
notExtVars == <<mergeVars, distVars, convVars, pivotVars>>

vars == <<mergeVars, distVars, convVars, pivotVars, extVars>>

(***************************************************************************)
(* Bounds and input domains                                                *)
(***************************************************************************)
MaxProjects == 3
MaxAdds == 3
MaxSheets == 2
MaxRows == 2
MaxCols == 3
MaxComponents == 2
MaxTransitions == 2

StartYears == {1995, 2000, 2005}
EndYears == {2015, 2020, 2030}

\* What the configuration file at args.config_path holds.
ConfigStates == {"ok", "unloadable", "missing_key"}

\* A prepared project on disk, as PreparedProject exposes it to merge().
PreparedProjects == [start_year : StartYears, end_year : EndYears]

RECURSIVE SeqsUpTo(_, _)
SeqsUpTo(S, n) ==
    IF n = 0 THEN {<<>>}
    ELSE LET shorter == SeqsUpTo(S, n - 1)
         IN  shorter \cup {Append(s, x) : s \in {t \in shorter : Len(t) = n - 1}, x \in S}

\* Classifier names with their rank in Python's string order.
ClassifierNames == {"a", "b"}
NameRank == [n \in ClassifierNames |-> IF n = "a" THEN 1 ELSE 2]

\* The (name, value) items a classifier_set argument may hold.
ClassifierItems == {<<"a", 1>>, <<"a", 2>>, <<"b", 1>>}

\* A Python dict as its items in insertion order; keys are distinct.
DistinctKeys(d) == \A i, j \in 1..Len(d) : d[i][1] = d[j][1] => i = j
ClassifierDicts == {d \in SeqsUpTo(ClassifierItems, 2) : DistinctKeys(d)}

Ages == {1, 2}
Proportions == {1, 2}
DisturbanceTypeLists == {<<>>, <<"Wildfire">>}

\* The _AgeDistribution variables while another part of the program runs.
DistIdle ==
    /\ dist_pc = "idle"
    /\ disturbance_types = <<>>
    /\ distributions = <<>>
    /\ add_calls = <<>>
    /\ dist_json = <<>>

\* A blank spreadsheet cell: pd.read_excel yields float NaN for it.
NaN == -1

\* Column sets a distribution sheet may have: "a" and "b" are classifier
\* columns, "x" is a column that is no classifier.
SheetColumnSets == {S \cup {"a", "x"} : S \in SUBSET {"min_age", "proportion", "b"}}

\* The values a cell of each column may hold.
CellsOf(c) ==
    CASE c = "min_age" -> {NaN, 1, 2}
      [] c = "proportion" -> {1}
      [] c = "a" -> {NaN, 0, 1}
      [] OTHER -> {1}

ClassifierLists == {<<"a", "b">>, <<"b", "a">>, <<"a">>}

\* The _convert_age_distribution variables while another part of the program runs.
ConvIdle ==
    /\ conv_pc = "idle"
    /\ classifiers = <<>>
    /\ sheets_read = <<>>
    /\ sheets_left = 0
    /\ columns = {}
    /\ rows_left = 0
    /\ row_data = [c \in {} |-> 0]
    /\ classifier_set = <<>>
    /\ age_distributions = <<>>
    /\ out_file = [exists |-> FALSE, content |-> <<>>]
    /\ conv_error = "none"

\* Column labels of a pivoted table; "" is the inner label of an index column.
OuterLabels == {"id", "classifier_value"}
InnerLabels == {"", "a", "0"}

\* The _flatten_pivot_columns variables while another part of the program runs.
PivotIdle ==
    /\ pivot_pc = "idle"
    /\ pivot_levels = <<>>
    /\ pivot_columns = <<>>

\* Classifier names of the input database, in the order pivot sorts them.
DbClassifiers == <<"a", "b">>
\* Stand ages of growth_curve_component_value, as column labels.
DbAges == <<"0">>

\* All functions from a subset of D to V: the related rows an entity has.
PartialFunctions(D, V) == UNION {[S -> V] : S \in SUBSET D}

\* growth_curve_component rows: species is the joined species (NaN when no
\* species row matches), classifier_values those of its growth curve,
\* volumes its growth_curve_component_value rows by age.
DbComponents ==
    [species : {NaN, 7},
     classifier_values : PartialFunctions({"a", "b"}, {1}),
     volumes : PartialFunctions({"0"}, {5})]

\* transition rows with their transition_classifier_value rows.
DbTransitions ==
    [regen_delay : {0}, age_after : {3},
     classifier_values : PartialFunctions({"a", "b"}, {1})]

NoFile == [exists |-> FALSE, columns |-> <<>>, rows |-> <<>>]

\* The convert variables while another part of the program runs.
ExtIdle ==
    /\ ext_pc = "idle"
    /\ connections = <<>>
    /\ db = [components |-> <<>>, transitions |-> <<>>]
    /\ sit_yields = NoFile
    /\ sit_transitions = NoFile
    /\ ext_error = "none"

(***************************************************************************)
(* walltowall.py: merge                                                    *)
(***************************************************************************)
\* Everything merge() writes inside the TemporaryDirectory.
TmpArtifacts == {"tmp", "tmp/inventories"}

\* Artifacts under args.output_path written by the stages.
OutputArtifacts == {"layers/merged", "input_database/gcbm_input.db", "layers/tiled",
                    "layers/tiled/transition_rules.csv", "patched_db", "gcbm_project"}

StageOrder == <<"Merge", "Tile", "Patch", "Configure">>

\* min(...) over a generator: a left-to-right scan keeping the smallest so far.
RECURSIVE MinScan(_, _, _)
MinScan(s, i, best) ==
    IF i > Len(s) THEN best
    ELSE MinScan(s, i + 1, IF s[i] < best THEN s[i] ELSE best)

\* Mutant: takes the first project's year instead of scanning all of them.
Min_FirstOnly(s) == s[1]

Min(s) == MinScan(s, 2, s[1])

\* max(...) over a generator: a left-to-right scan keeping the largest so far.
RECURSIVE MaxScan(_, _, _)
MaxScan(s, i, best) ==
    IF i > Len(s) THEN best
    ELSE MaxScan(s, i + 1, IF s[i] > best THEN s[i] ELSE best)

Max(s) == MaxScan(s, 2, s[1])

\* The merge command before cli() has run (also its idle value elsewhere).
MergeIdle ==
    /\ pc = "cli"
    /\ fs = {}
    /\ projects = <<>>
    /\ inventories = 0
    /\ start_year = 0
    /\ end_year = 0
    /\ stage_calls = <<>>
    /\ exit = "none"

MergeInit ==
    /\ MergeIdle
    /\ args \in [project_paths : SeqsUpTo(PreparedProjects, MaxProjects),
                 config : ConfigStates,
                 include_index_layer : BOOLEAN]
    /\ DistIdle
    /\ ConvIdle
    /\ PivotIdle
    /\ ExtIdle

\* An exception leaving merge(): the TemporaryDirectory context removes tmp,
\* nothing else is cleaned up, and the exception reaches the caller of cli().
Raise(kind, written) ==
    /\ pc' = "done"
    /\ exit' = kind
    /\ fs' = written \ TmpArtifacts

\* cli(): parse_args, then logging.basicConfig opens walltowall.log under
\* output_path (mode "w" for merge), then args.func(args).
\* nargs="+" makes argparse reject an empty project_paths list with a usage
\* error before logging is configured; any non-empty list is accepted.
Cli ==
    /\ pc = "cli"
    /\ IF Len(args.project_paths) = 0
       THEN /\ pc' = "done"
            /\ exit' = "usage_error"
            /\ fs' = fs
       ELSE /\ pc' = "merge"
            /\ exit' = exit
            /\ fs' = fs \cup {"walltowall.log"}
    /\ UNCHANGED <<args, projects, inventories, start_year, end_year, stage_calls, notMergeVars>>

\* merge() lines 43-45: enter TemporaryDirectory, build the PreparedProject list.
MergeEnter ==
    /\ pc = "merge"
    /\ fs' = fs \cup {"tmp"}
    /\ projects' = args.project_paths
    /\ pc' = "prepare_merge"
    /\ UNCHANGED <<args, inventories, start_year, end_year, stage_calls, exit, notMergeVars>>

\* merge() line 46: prepare_merge(tmp, i) for every project, writing into tmp.
PrepareMerge ==
    /\ pc = "prepare_merge"
    /\ \E ok \in BOOLEAN :
        IF ok
        THEN /\ inventories' = Len(projects)
             /\ fs' = fs \cup {"tmp/inventories"}
             /\ pc' = "years"
             /\ exit' = exit
        ELSE /\ inventories' = inventories
             /\ Raise("prepare_failure", fs \cup {"tmp/inventories"})
    /\ UNCHANGED <<args, projects, start_year, end_year, stage_calls, notMergeVars>>

\* merge() lines 53-54.
ReconcileYears ==
    /\ pc = "years"
    /\ start_year' = Min([i \in 1..Len(projects) |-> projects[i].start_year])
    /\ end_year' = Max([i \in 1..Len(projects) |-> projects[i].end_year])
    /\ pc' = "stage_merge"
    /\ UNCHANGED <<args, fs, projects, inventories, stage_calls, exit, notMergeVars>>

StageCall(stage, ok) ==
    [stage |-> stage, ok |-> ok,
     start_year |-> IF stage \in {"Merge", "Configure"} THEN start_year ELSE 0,
     end_year |-> IF stage = "Configure" THEN end_year ELSE 0]

\* Mutant: a failing stage is swallowed and the next stage runs anyway.
Stage_ContinueOnFailure(at, stage, writes, next) ==
    /\ pc = at
    /\ \E ok \in BOOLEAN :
        /\ stage_calls' = Append(stage_calls, StageCall(stage, ok))
        /\ fs' = fs \cup writes
        /\ pc' = next
        /\ exit' = exit
    /\ UNCHANGED <<args, projects, inventories, start_year, end_year, notMergeVars>>

\* One blocking call into an external stage: it is recorded as invoked, it
\* may write part or all of its artifacts, and it either returns (control
\* moves to `next`) or raises (the exception leaves merge()).
Stage(at, stage, writes, next) ==
    /\ pc = at
    /\ \E ok \in BOOLEAN :
        /\ stage_calls' = Append(stage_calls, StageCall(stage, ok))
        /\ IF ok
           THEN /\ fs' = fs \cup writes
                /\ pc' = next
                /\ exit' = exit
           ELSE \E partial \in SUBSET writes : Raise("stage_failure", fs \cup partial)
    /\ UNCHANGED <<args, projects, inventories, start_year, end_year, notMergeVars>>

\* merge() lines 56-59: gcbm_merge.merge(inventories, merged, db, start_year, ...).
StageMerge ==
    Stage("stage_merge", "Merge", {"layers/merged", "input_database/gcbm_input.db"}, "stage_tile")

\* merge() lines 61-63: gcbm_merge_tile.tile(tiled, merged_data, inventories, flag).
StageTile ==
    Stage("stage_tile", "Tile", {"layers/tiled", "layers/tiled/transition_rules.csv"}, "stage_patch")

\* merge() lines 65-67: replace_direct_attached_transition_rules(db, csv).
StagePatch ==
    Stage("stage_patch", "Patch", {"patched_db"}, "config_load")

\* merge() lines 69-74: Configuration.load, then the GCBMConfigurer is built
\* from config.gcbm_template_path and config.gcbm_disturbance_order.
LoadConfig ==
    /\ pc = "config_load"
    /\ IF args.config = "ok"
       THEN /\ pc' = "configure"
            /\ exit' = exit
            /\ fs' = fs
       ELSE Raise("config_error", fs)
    /\ UNCHANGED <<args, projects, inventories, start_year, end_year, stage_calls, notMergeVars>>

\* merge() line 76: configurer.configure(), then the with block ends.
StageConfigure ==
    /\ pc = "configure"
    /\ \E ok \in BOOLEAN :
        /\ stage_calls' = Append(stage_calls, StageCall("Configure", ok))
        /\ IF ok
           THEN Raise("ok", fs \cup {"gcbm_project"})
           ELSE \E partial \in SUBSET {"gcbm_project"} : Raise("stage_failure", fs \cup partial)
    /\ UNCHANGED <<args, projects, inventories, start_year, end_year, notMergeVars>>

MergeNext ==
    \/ Cli
    \/ MergeEnter
    \/ PrepareMerge
    \/ ReconcileYears
    \/ StageMerge
    \/ StageTile
    \/ StagePatch
    \/ LoadConfig
    \/ StageConfigure

SpecMerge == MergeInit /\ [][MergeNext]_vars

(***************************************************************************)
(* rollback.py: _ClassifierSet and _AgeDistribution                        *)
(***************************************************************************)
\* Python's tuple order on (name, value) items.
ItemLess(p, q) ==
    \/ NameRank[p[1]] < NameRank[q[1]]
    \/ (p[1] = q[1] /\ p[2] < q[2])

\* Python's tuple order on (age, proportion) items.
PairLess(p, q) ==
    \/ p[1] < q[1]
    \/ (p[1] = q[1] /\ p[2] < q[2])

\* sorted(d.items()) of a classifier set.
RECURSIVE SortedItems(_)
SortedItems(d) ==
    IF Len(d) = 0 THEN <<>>
    ELSE LET rest == SortedItems(Tail(d))
             x == Head(d)
             before == SelectSeq(rest, LAMBDA y : ItemLess(y, x))
             after == SelectSeq(rest, LAMBDA y : ~ItemLess(y, x))
         IN  before \o <<x>> \o after

\* sorted(proportions.items()).
RECURSIVE SortedPairs(_)
SortedPairs(d) ==
    IF Len(d) = 0 THEN <<>>
    ELSE LET rest == SortedPairs(Tail(d))
             x == Head(d)
             before == SelectSeq(rest, LAMBDA y : PairLess(y, x))
             after == SelectSeq(rest, LAMBDA y : ~PairLess(y, x))
         IN  before \o <<x>> \o after

\* Mutant: compares the items in insertion order, without sorting.
ClassifierSetEq_Unsorted(a, b) == a = b

\* _ClassifierSet.__eq__ (and __hash__, which hashes the same sorted tuple).
ClassifierSetEq(a, b) == SortedItems(a) = SortedItems(b)

\* Position of key k in an insertion-ordered dict keyed by _ClassifierSet, 0 if absent.
FindKey(dists, k) ==
    IF \E i \in 1..Len(dists) : ClassifierSetEq(dists[i].key, k)
    THEN CHOOSE i \in 1..Len(dists) :
            /\ ClassifierSetEq(dists[i].key, k)
            /\ \A j \in 1..(i - 1) : ~ClassifierSetEq(dists[j].key, k)
    ELSE 0

\* d[k] = v on a plain dict: an existing key keeps its position, a new one goes last.
DictSet(d, k, v) ==
    IF \E i \in 1..Len(d) : d[i][1] = k
    THEN [i \in 1..Len(d) |-> IF d[i][1] = k THEN <<k, v>> ELSE d[i]]
    ELSE Append(d, <<k, v>>)

\* _AgeDistribution.add: self.distributions[_ClassifierSet(cs or {})][age] = proportion,
\* where the defaultdict creates an empty dict for a key it has not seen.
AddTo(dists, age, proportion, cs) ==
    LET i == FindKey(dists, cs)
        withKey == IF i = 0 THEN Append(dists, [key |-> cs, props |-> <<>>])
                   ELSE dists
        at == IF i = 0 THEN Len(withKey) ELSE i
    IN  [withKey EXCEPT ![at].props = DictSet(@, age, proportion)]

\* Mutant: emits the proportions in insertion order.
DistributionList_Unsorted(proportions) == proportions

\* to_json lines 105-108: [[age, proportion] for ... in sorted(proportions.items())].
DistributionList(proportions) == SortedPairs(proportions)

\* _AgeDistribution.to_json: one record per key of self.distributions, in dict
\* order. disturbance_type = <<>> stands for a record without that field.
ToJson(dtypes, dists) ==
    [i \in 1..Len(dists) |->
        [disturbance_type |-> dtypes,
         classifiers |-> [k \in 1..Len(dists[i].key) |-> <<dists[i].key[k][1], <<dists[i].key[k][2]>>>>],
         distribution |-> DistributionList(dists[i].props)]]

\* _AgeDistribution(disturbance_types)
DistInit ==
    /\ MergeIdle
    /\ args = [project_paths |-> <<>>, config |-> "ok", include_index_layer |-> FALSE]
    /\ dist_pc = "adding"
    /\ disturbance_types \in DisturbanceTypeLists
    /\ distributions = <<>>
    /\ add_calls = <<>>
    /\ dist_json = <<>>
    /\ ConvIdle
    /\ PivotIdle
    /\ ExtIdle

\* distribution.add(age, proportion, classifier_set)
Add ==
    /\ dist_pc = "adding"
    /\ Len(add_calls) < MaxAdds
    /\ \E age \in Ages, proportion \in Proportions, cs \in ClassifierDicts :
        /\ distributions' = AddTo(distributions, age, proportion, cs)
        /\ add_calls' = Append(add_calls, [age |-> age, proportion |-> proportion, classifier_set |-> cs])
    /\ UNCHANGED <<dist_pc, disturbance_types, dist_json, notDistVars>>

\* distribution.to_json()
EmitJson ==
    /\ dist_pc = "adding"
    /\ dist_json' = ToJson(disturbance_types, distributions)
    /\ dist_pc' = "emitted"
    /\ UNCHANGED <<disturbance_types, distributions, add_calls, notDistVars>>

DistNext ==
    \/ Add
    \/ EmitJson

SpecDist == DistInit /\ [][DistNext]_vars

(***************************************************************************)
(* rollback.py: Rollback._convert_age_distribution                         *)
(***************************************************************************)
\* bool(v) of a cell value: NaN and every non-zero number are true, 0 is false.
Truthy(v) == v # 0

\* `if row_data.get(c.name)`: dict.get gives None (false) for a missing column.
GetIsTruthy(rd, c) == c \in DOMAIN rd /\ Truthy(rd[c])

\* Lines 65-68: {c.name: row_data.get(c.name) for c in classifiers if row_data.get(c.name)}
ClassifierSetOf(cls, rd) ==
    LET kept == SelectSeq(cls, LAMBDA c : GetIsTruthy(rd, c))
    IN  [i \in 1..Len(kept) |-> <<kept[i], rd[kept[i]]>>]

\* Whether a key holds a NaN value. NaN is unequal to itself, and tuples
\* holding it compare equal only when it is the very same float object.
HasNaN(cs) == \E i \in 1..Len(cs) : cs[i][2] = NaN

ConvInit ==
    /\ MergeIdle
    /\ args = [project_paths |-> <<>>, config |-> "ok", include_index_layer |-> FALSE]
    /\ DistIdle
    /\ conv_pc = "read_root"
    /\ classifiers \in ClassifierLists
    /\ sheets_read = <<>>
    /\ sheets_left = 0
    /\ columns = {}
    /\ rows_left = 0
    /\ row_data = [c \in {} |-> 0]
    /\ classifier_set = <<>>
    /\ age_distributions = <<>>
    /\ out_file = [exists |-> FALSE, content |-> <<>>]
    /\ conv_error = "none"
    /\ PivotIdle
    /\ ExtIdle

\* Lines 51-57: read the root sheet, whose columns name the distribution sheets.
ReadRoot ==
    /\ conv_pc = "read_root"
    /\ \E n \in 0..MaxSheets : sheets_left' = n
    /\ conv_pc' = "sheet"
    /\ UNCHANGED <<classifiers, sheets_read, columns, rows_left, row_data, classifier_set,
                   age_distributions, out_file, conv_error, notConvVars, distVars>>

\* Lines 59-61: the next distribution sheet: a new _AgeDistribution, read_excel.
OpenSheet ==
    /\ conv_pc = "sheet"
    /\ sheets_left > 0
    /\ \E cols \in SheetColumnSets, n \in 0..MaxRows, dtypes \in DisturbanceTypeLists :
        /\ columns' = cols
        /\ rows_left' = n
        /\ disturbance_types' = dtypes
        /\ sheets_read' = Append(sheets_read, [columns |-> cols, rows |-> n])
    /\ distributions' = <<>>
    /\ conv_pc' = "rows"
    /\ UNCHANGED <<classifiers, sheets_left, row_data, classifier_set, age_distributions,
                   out_file, conv_error, notConvVars, dist_pc, add_calls, dist_json>>

\* An exception leaving _convert_age_distribution: line 74 is never reached.
ConvRaise(kind) ==
    /\ conv_pc' = "done"
    /\ conv_error' = kind
    /\ UNCHANGED <<distributions, rows_left>>

\* Lines 63-70: one iteration of the row loop. The arguments of add are
\* evaluated left to right: row_data["min_age"], int(...), row_data["proportion"].
Row ==
    /\ conv_pc = "rows"
    /\ rows_left > 0
    /\ \E rd \in [columns -> {NaN, 0, 1, 2}] :
        /\ \A c \in columns : rd[c] \in CellsOf(c)
        /\ row_data' = rd
        /\ classifier_set' = ClassifierSetOf(classifiers, rd)
        /\ IF "min_age" \notin columns THEN ConvRaise("KeyError")
           ELSE IF rd["min_age"] = NaN THEN ConvRaise("ValueError")
           ELSE IF "proportion" \notin columns THEN ConvRaise("KeyError")
           ELSE /\ \E same_object \in BOOLEAN :
                    distributions' =
                        IF HasNaN(classifier_set') /\ ~same_object
                        THEN Append(distributions,
                                    [key |-> classifier_set',
                                     props |-> <<<<rd["min_age"], rd["proportion"]>>>>])
                        ELSE AddTo(distributions, rd["min_age"], rd["proportion"], classifier_set')
                /\ rows_left' = rows_left - 1
                /\ UNCHANGED <<conv_pc, conv_error>>
    /\ UNCHANGED <<classifiers, sheets_read, sheets_left, columns, age_distributions, out_file,
                   notConvVars, dist_pc, disturbance_types, add_calls, dist_json>>

\* Line 72: age_distributions.extend(distribution.to_json()), then the next sheet.
EndSheet ==
    /\ conv_pc = "rows"
    /\ rows_left = 0
    /\ age_distributions' = age_distributions \o ToJson(disturbance_types, distributions)
    /\ sheets_left' = sheets_left - 1
    /\ conv_pc' = "sheet"
    /\ UNCHANGED <<classifiers, sheets_read, columns, rows_left, row_data, classifier_set,
                   out_file, conv_error, notConvVars, distVars>>

\* Line 74: json.dump(age_distributions, open(output_path, "w"), indent=4).
Dump ==
    /\ conv_pc = "sheet"
    /\ sheets_left = 0
    /\ out_file' = [exists |-> TRUE, content |-> age_distributions]
    /\ conv_pc' = "done"
    /\ UNCHANGED <<classifiers, sheets_read, sheets_left, columns, rows_left, row_data,
                   classifier_set, age_distributions, conv_error, notConvVars, distVars>>

ConvNext ==
    \/ ReadRoot
    \/ OpenSheet
    \/ Row
    \/ EndSheet
    \/ Dump

SpecConvert == ConvInit /\ [][ConvNext]_vars

(***************************************************************************)
(* projectconverter.py: _flatten_pivot_columns                             *)
(***************************************************************************)
\* Mutant: prefers the outer label and falls back to the inner one.
FlattenPivotColumns_OuterFirst(cols) ==
    [i \in 1..Len(cols) |-> IF cols[i][1] # "" THEN cols[i][1] ELSE cols[i][2]]

\* Lines 87-91: get_level_values(1)[i] if it is != "" else get_level_values(0)[i].
FlattenPivotColumns(cols) ==
    [i \in 1..Len(cols) |-> IF cols[i][2] # "" THEN cols[i][2] ELSE cols[i][1]]

PivotInit ==
    /\ MergeIdle
    /\ args = [project_paths |-> <<>>, config |-> "ok", include_index_layer |-> FALSE]
    /\ DistIdle
    /\ ConvIdle
    /\ ExtIdle
    /\ pivot_pc = "pivoted"
    /\ pivot_levels \in SeqsUpTo(OuterLabels \X InnerLabels, MaxCols)
    /\ pivot_columns = pivot_levels

\* self._flatten_pivot_columns(pivot_data): columns is reassigned in place.
Flatten ==
    /\ pivot_pc = "pivoted"
    /\ pivot_columns' = FlattenPivotColumns(pivot_columns)
    /\ pivot_pc' = "flattened"
    /\ UNCHANGED <<pivot_levels, notPivotVars>>

PivotNext == Flatten

SpecPivot == PivotInit /\ [][PivotNext]_vars

(***************************************************************************)
(* projectconverter.py: convert, _convert_yields, _convert_transitions     *)
(***************************************************************************)
\* A file left in output_path by an earlier run.
StaleFile == [exists |-> TRUE, columns |-> <<"stale">>, rows |-> <<>>]

\* The cell a left join or a pivot leaves for key k: the related value, NaN if none.
Cell(f, k) == IF k \in DOMAIN f THEN f[k] ELSE NaN

\* Ids (ascending, as pivot sorts its index) of the entities that survive the
\* INNER JOIN with their classifier value rows.
JoinedIds(entities) ==
    SelectSeq([i \in 1..Len(entities) |-> i],
              LAMBDA i : DOMAIN entities[i].classifier_values # {})

\* The classifier names the INNER JOIN returns, as pivot orders its columns.
ObservedClassifiers(entities) ==
    SelectSeq(DbClassifiers,
              LAMBDA n : \E i \in 1..Len(entities) : n \in DOMAIN entities[i].classifier_values)

\* The ages the growth_curve_component_value join returns, as pivot orders them.
ObservedAges(components) ==
    SelectSeq(DbAges,
              LAMBDA a : \E i \in 1..Len(components) : a \in DOMAIN components[i].volumes)

\* pivot(...) labels every value column (value column name, pivoted label).
PivotLabels(outer, inner) == [i \in 1..Len(inner) |-> <<outer, inner[i]>>]

\* Lines 95-134: components (INNER JOINs, pivoted on classifier_name) joined
\* with component_species and component_values on the component id. src_id is
\* the component a row comes from; the id column itself is dropped (line 134).
YieldCurves(components) ==
    LET ids == JoinedIds(components)
        cnames == FlattenPivotColumns(PivotLabels("classifier_value", ObservedClassifiers(components)))
        anames == FlattenPivotColumns(PivotLabels("merchantable_volume", ObservedAges(components)))
    IN  [exists |-> TRUE,
         columns |-> cnames \o <<"species">> \o anames,
         rows |-> [k \in 1..Len(ids) |->
            [src_id |-> ids[k],
             cells |-> [c \in 1..Len(cnames) |-> Cell(components[ids[k]].classifier_values, cnames[c])]
                       \o <<components[ids[k]].species>>
                       \o [a \in 1..Len(anames) |-> Cell(components[ids[k]].volumes, anames[a])]]]]

\* Lines 138-155: transitions (INNER JOINs) pivoted on classifier_name with
\* index id, regen_delay, age_after; reset_index keeps those three as columns.
Transitions(transitions) ==
    LET ids == JoinedIds(transitions)
        names == FlattenPivotColumns(
                    <<<<"id", "">>, <<"regen_delay", "">>, <<"age_after", "">>>>
                    \o PivotLabels("classifier_value", ObservedClassifiers(transitions)))
    IN  [exists |-> TRUE,
         columns |-> names,
         rows |-> [k \in 1..Len(ids) |->
            [src_id |-> ids[k],
             cells |-> <<ids[k], transitions[ids[k]].regen_delay, transitions[ids[k]].age_after>>
                       \o [c \in 1..(Len(names) - 3) |->
                            Cell(transitions[ids[k]].classifier_values, names[c + 3])]]]]

ExtInit ==
    /\ MergeIdle
    /\ args = [project_paths |-> <<>>, config |-> "ok", include_index_layer |-> FALSE]
    /\ DistIdle
    /\ ConvIdle
    /\ PivotIdle
    /\ ext_pc = "begin"
    /\ connections = <<>>
    /\ db \in [components : SeqsUpTo(DbComponents, MaxComponents),
               transitions : SeqsUpTo(DbTransitions, MaxTransitions)]
    /\ \E stale \in BOOLEAN :
        /\ sit_yields = IF stale THEN StaleFile ELSE NoFile
        /\ sit_transitions = IF stale THEN StaleFile ELSE NoFile
    /\ ext_error = "none"

\* convert lines 22-24: rmtree(output_path), mkdir.
ConvertBegin ==
    /\ ext_pc = "begin"
    /\ sit_yields' = NoFile
    /\ sit_transitions' = NoFile
    /\ ext_pc' = "yields"
    /\ UNCHANGED <<connections, db, ext_error, notExtVars>>

\* An exception leaving convert().
ExtRaise(kind) ==
    /\ ext_pc' = "done"
    /\ ext_error' = kind

\* _input_db_connection lines 46-53: a new engine for the project's database
\* and engine.connect() on it; the connection is what the with block yields.
Acquire(conns, call) ==
    Append(conns, [call |-> call, engine |-> Len(conns) + 1, open |-> TRUE])

\* Mutant: the connection is closed only when the with body returns, as a
\* generator without the inner with block would do.
Release_OnReturnOnly(conns, raised) ==
    IF raised THEN conns ELSE [conns EXCEPT ![Len(conns)].open = FALSE]

\* _input_db_connection lines 53-54: leaving `with engine.connect() as conn`
\* closes the connection, whether the body of the caller's with block
\* returned or its exception was thrown into the generator at the yield.
Release(conns, raised) ==
    [conns EXCEPT ![Len(conns)].open = FALSE]

\* Lines 94 and 137: `with self._input_db_connection(project) as conn:` is
\* entered. create_engine or engine.connect() may raise, and then no
\* connection exists.
EnterConnection(at, call, body) ==
    /\ ext_pc = at
    /\ \E ok \in BOOLEAN :
        IF ok
        THEN /\ connections' = Acquire(connections, call)
             /\ ext_pc' = body
             /\ ext_error' = ext_error
        ELSE /\ connections' = connections
             /\ ExtRaise("connect_error")
    /\ UNCHANGED <<db, sit_yields, sit_transitions, notExtVars>>

\* convert line 26, _convert_yields line 94.
OpenYieldsConnection == EnterConnection("yields", "_convert_yields", "yields_body")

\* convert line 27, _convert_transitions line 137.
OpenTransitionsConnection == EnterConnection("transitions", "_convert_transitions", "transitions_body")

\* _convert_yields lines 95-134, then the with block is left. A query may
\* raise. What pivot does with a query result of no rows is left open: it
\* raises or it yields an empty table.
ConvertYields ==
    /\ ext_pc = "yields_body"
    /\ \E outcome \in {"ok", "sql_error", "pivot_error"} :
        /\ outcome = "pivot_error" =>
            (JoinedIds(db.components) = <<>> \/ ObservedAges(db.components) = <<>>)
        /\ connections' = Release(connections, outcome # "ok")
        /\ IF outcome = "ok"
           THEN /\ sit_yields' = YieldCurves(db.components)
                /\ ext_pc' = "transitions"
                /\ ext_error' = ext_error
           ELSE /\ ExtRaise(outcome)
                /\ sit_yields' = sit_yields
    /\ UNCHANGED <<db, sit_transitions, notExtVars>>

\* _convert_transitions lines 138-155, then the with block is left.
ConvertTransitions ==
    /\ ext_pc = "transitions_body"
    /\ \E outcome \in {"ok", "sql_error", "pivot_error"} :
        /\ outcome = "pivot_error" => JoinedIds(db.transitions) = <<>>
        /\ connections' = Release(connections, outcome # "ok")
        /\ IF outcome = "ok"
           THEN /\ sit_transitions' = Transitions(db.transitions)
                /\ ext_pc' = "rest"
                /\ ext_error' = ext_error
           ELSE /\ ExtRaise(outcome)
                /\ sit_transitions' = sit_transitions
    /\ UNCHANGED <<db, sit_yields, notExtVars>>

\* convert lines 28-42: _build_input_database and _convert_spatial_data.
ConvertRest ==
    /\ ext_pc = "rest"
    /\ \E ok \in BOOLEAN :
        /\ ext_pc' = "done"
        /\ ext_error' = IF ok THEN ext_error ELSE "io_error"
    /\ UNCHANGED <<connections, db, sit_yields, sit_transitions, notExtVars>>

ExtNext ==
    \/ ConvertBegin
    \/ OpenYieldsConnection
    \/ ConvertYields
    \/ OpenTransitionsConnection
    \/ ConvertTransitions
    \/ ConvertRest

SpecExtract == ExtInit /\ [][ExtNext]_vars

(***************************************************************************)
(* Claims about the merge command                                          *)
(***************************************************************************)
\* C1: a merge invoked with fewer than two project paths fails as a
\* configuration error before any filesystem write: no log file, no temporary
\* directory content, no prepare_merge output, and no stage is reached.
C1_MergeRequiresTwoProjects ==
    Len(args.project_paths) < 2 =>
        /\ fs = {}
        /\ inventories = 0
        /\ stage_calls = <<>>
        /\ pc \in {"cli", "done"}
        /\ pc = "done" => exit \in {"usage_error", "config_error"}

\* C2: the stages are invoked at most once each and only in the order Merge,
\* Tile, Patch, Configure; a stage is invoked only after the previous one
\* returned successfully; once a stage fails no later stage is invoked and
\* the failure reaches the caller (the command is over, ended by that failure).
C2_StagesInOrder ==
    /\ Len(stage_calls) <= Len(StageOrder)
    /\ \A i \in 1..Len(stage_calls) :
        /\ stage_calls[i].stage = StageOrder[i]
        /\ i < Len(stage_calls) => stage_calls[i].ok
        /\ ~stage_calls[i].ok => (i = Len(stage_calls) /\ pc = "done" /\ exit = "stage_failure")

\* C2 witness: Tile was invoked after Merge returned, Tile failed, the command
\* ended with that failure and neither Patch nor Configure was invoked.
C2_Witness ==
    /\ Len(stage_calls) = 2
    /\ stage_calls[1].stage = "Merge" /\ stage_calls[1].ok
    /\ stage_calls[2].stage = "Tile" /\ ~stage_calls[2].ok
    /\ pc = "done"
    /\ exit = "stage_failure"

\* C3: a configuration error (configuration file unloadable or lacking a
\* required key) is raised before any side effect: when it is raised none of
\* Merge, Tile, Patch has been invoked and nothing is written under the
\* output root.
C3_ConfigErrorBeforeSideEffects ==
    exit = "config_error" =>
        /\ stage_calls = <<>>
        /\ fs \cap OutputArtifacts = {}

\* C4: the start_year handed to the Merge stage and to the Configure stage is
\* the minimum of the input projects' start years, and the end_year handed to
\* Configure is the maximum of their end years.
C4_ReconciledYears ==
    \A i \in 1..Len(stage_calls) :
        LET starts == {projects[k].start_year : k \in 1..Len(projects)}
            ends == {projects[k].end_year : k \in 1..Len(projects)}
            call == stage_calls[i]
        IN  /\ call.stage \in {"Merge", "Configure"} =>
                /\ call.start_year \in starts
                /\ \A y \in starts : call.start_year <= y
                /\ call.start_year = stage_calls[1].start_year
            /\ call.stage = "Configure" =>
                /\ call.end_year \in ends
                /\ \A y \in ends : y <= call.end_year

\* C4 witness: projects with start years 2000, 1995, 2005 and end years 2020,
\* 2015, 2030 were merged and Configure received the window 1995..2030.
C4_Witness ==
    /\ Len(projects) = 3
    /\ <<projects[1].start_year, projects[2].start_year, projects[3].start_year>> = <<2000, 1995, 2005>>
    /\ <<projects[1].end_year, projects[2].end_year, projects[3].end_year>> = <<2020, 2015, 2030>>
    /\ Len(stage_calls) = 4
    /\ stage_calls[1].start_year = 1995
    /\ stage_calls[4].start_year = 1995
    /\ stage_calls[4].end_year = 2030
    /\ exit = "ok"

(***************************************************************************)
(* Claims about _ClassifierSet and _AgeDistribution                        *)
(***************************************************************************)
ItemSet(d) == {d[i] : i \in 1..Len(d)}

\* C5: rows whose classifier name/value pairs are the same set, whatever the
\* order they were inserted in, land in the same distribution: to_json emits
\* exactly one record per distinct set of (name, value) pairs seen by add.
C5_OneRecordPerClassifierSet ==
    dist_pc = "emitted" =>
        LET seen == {ItemSet(add_calls[i].classifier_set) : i \in 1..Len(add_calls)}
            emitted(r) == {<<r.classifiers[k][1], r.classifiers[k][2][1]>> : k \in 1..Len(r.classifiers)}
        IN  /\ Len(dist_json) = Cardinality(seen)
            /\ \A i \in 1..Len(add_calls) :
                Cardinality({r \in 1..Len(dist_json) :
                    emitted(dist_json[r]) = ItemSet(add_calls[i].classifier_set)}) = 1

\* C5 witness: two add calls gave the same pairs in different insertion order
\* and to_json emitted a single record for them.
C5_Witness ==
    /\ dist_pc = "emitted"
    /\ Len(dist_json) = 1
    /\ \E i, j \in 1..Len(add_calls) :
        /\ add_calls[i].classifier_set # add_calls[j].classifier_set
        /\ ItemSet(add_calls[i].classifier_set) = ItemSet(add_calls[j].classifier_set)

\* C6: every emitted distribution is strictly ascending by age (so no age
\* occurs twice), holds exactly the ages added for its classifier set, and
\* the proportion emitted for an age is the one given by the last add call
\* for that age and classifier set.
C6_AscendingLastWriteWins ==
    dist_pc = "emitted" =>
        \A r \in 1..Len(dist_json) :
            LET rec == dist_json[r]
                key == {<<rec.classifiers[k][1], rec.classifiers[k][2][1]>> : k \in 1..Len(rec.classifiers)}
                mine == {i \in 1..Len(add_calls) : ItemSet(add_calls[i].classifier_set) = key}
                out == rec.distribution
            IN  /\ \A k \in 1..(Len(out) - 1) : out[k][1] < out[k + 1][1]
                /\ {out[k][1] : k \in 1..Len(out)} = {add_calls[i].age : i \in mine}
                /\ \A k \in 1..Len(out) :
                    \E i \in mine :
                        /\ add_calls[i].age = out[k][1]
                        /\ add_calls[i].proportion = out[k][2]
                        /\ \A j \in mine : (j > i => add_calls[j].age # out[k][1])

\* C6 witness: one classifier set received a higher age first, then a lower
\* age, then the higher age again with another proportion; the emitted
\* distribution is ascending and carries the later proportion.
C6_Witness ==
    /\ dist_pc = "emitted"
    /\ Len(add_calls) = 3
    /\ add_calls[1].age = 2 /\ add_calls[2].age = 1 /\ add_calls[3].age = 2
    /\ add_calls[1].proportion = 1 /\ add_calls[3].proportion = 2
    /\ Len(dist_json) = 1
    /\ dist_json[1].distribution = <<<<1, add_calls[2].proportion>>, <<2, 2>>>>

(***************************************************************************)
(* Claims about Rollback._convert_age_distribution                         *)
(***************************************************************************)
\* C7: for every data row, the classifier set built for it holds exactly the
\* caller's classifier names whose cell in that row is non-blank, each with
\* the cell's value: a blank cell never contributes a pair, a non-blank cell
\* always does whatever its value, and other columns are ignored.
C7_KeyIsNonBlankClassifiers ==
    DOMAIN row_data # {} =>
        LET names == {classifiers[i] : i \in 1..Len(classifiers)}
            nonblank == {c \in names : c \in DOMAIN row_data /\ row_data[c] # NaN}
        IN  /\ {classifier_set[i][1] : i \in 1..Len(classifier_set)} = nonblank
            /\ \A i \in 1..Len(classifier_set) :
                classifier_set[i][1] \in DOMAIN row_data => classifier_set[i][2] = row_data[classifier_set[i][1]]

\* C9: when a distribution sheet of the spreadsheet lacks the min_age or the
\* proportion column, the call ends with an error and the output file is not
\* created, however many rows that sheet has (zero included).
C9_MissingColumnIsFatal ==
    (/\ conv_pc = "done"
     /\ \E i \in 1..Len(sheets_read) :
            ~({"min_age", "proportion"} \subseteq sheets_read[i].columns))
    => (conv_error # "none" /\ ~out_file.exists)

(***************************************************************************)
(* Claims about ProjectConverter                                           *)
(***************************************************************************)
\* C10: flattening a two-level column-labelled table keeps the number and the
\* order of the columns and names each one by its inner label when that is
\* non-empty, otherwise by its outer label.
C10_FlattenInnerElseOuter ==
    pivot_pc = "flattened" =>
        /\ Len(pivot_columns) = Len(pivot_levels)
        /\ \A i \in 1..Len(pivot_levels) :
            /\ pivot_levels[i][2] # "" => pivot_columns[i] = pivot_levels[i][2]
            /\ pivot_levels[i][2] = "" => pivot_columns[i] = pivot_levels[i][1]

\* C10 witness: a table with an index column (empty inner label) followed by
\* pivoted columns was flattened to the outer name followed by the inner names.
C10_Witness ==
    /\ pivot_pc = "flattened"
    /\ pivot_levels = <<<<"id", "">>, <<"classifier_value", "a">>, <<"classifier_value", "0">>>>
    /\ pivot_columns = <<"id", "a", "0">>

\* C8: every growth-curve component and every transition rule of the input
\* database gets exactly one row in sit_yields.csv / sit_transitions.csv; a
\* missing related row (no species, no classifier value, no age-volume row)
\* gives null cells in that row and never drops the row.
C8_OneRowPerEntity ==
    (ext_pc \in {"rest", "done"} /\ sit_yields.exists /\ sit_transitions.exists) =>
        /\ \A i \in 1..Len(db.components) :
            Cardinality({k \in 1..Len(sit_yields.rows) : sit_yields.rows[k].src_id = i}) = 1
        /\ \A i \in 1..Len(db.transitions) :
            Cardinality({k \in 1..Len(sit_transitions.rows) : sit_transitions.rows[k].src_id = i}) = 1

\* C11: database connections are scoped to one extraction call. A connection
\* is open exactly while _convert_yields or _convert_transitions runs its
\* body, and it is the one that call opened; none is open between the two
\* calls or after them, whether a call returned or raised; at most one is
\* open at any time; every call opens its own connection on its own engine.
C11_ConnectionsScoped ==
    LET open == {i \in 1..Len(connections) : connections[i].open}
        inCall == [yields_body |-> "_convert_yields", transitions_body |-> "_convert_transitions"]
    IN  /\ Cardinality(open) <= 1
        /\ IF ext_pc \in DOMAIN inCall
           THEN /\ open = {Len(connections)}
                /\ connections[Len(connections)].call = inCall[ext_pc]
           ELSE open = {}
        /\ \A i, j \in 1..Len(connections) :
            i # j => (/\ connections[i].call # connections[j].call
                      /\ connections[i].engine # connections[j].engine)

\* C11 witness: _convert_yields returned and _convert_transitions raised in
\* its body; each had opened its own connection and both are closed.
C11_Witness ==
    /\ ext_pc = "done"
    /\ ext_error = "sql_error"
    /\ Len(connections) = 2
    /\ connections[1].call = "_convert_yields"
    /\ connections[2].call = "_convert_transitions"
    /\ ~connections[1].open
    /\ ~connections[2].open
    /\ sit_yields.exists

====
